---- MODULE Spec2Model ----
(***************************************************************************)
(* Model of the authoritative game core in server/game/game.go: the world  *)
(* store (players, sweets, tick), the command queue, the per-tick resolver *)
(* (applyCommands), the snapshot emitter (broadcastState) and the          *)
(* consumers of the two broadcast channels (the forwarders of              *)
(* server/routes/ws.go), together with the hub of ws.go, the sessions of   *)
(* ws.go (readPump and writePump of every client) and the copy of game.go  *)
(* that plays rounds (game_over, Restart, a cap of moves per tick).        *)
(*                                                                         *)
(* Player ids "p-<n>" and sweet ids "s<n>" are represented by the number   *)
(* n (fmt.Sprintf with %d is injective).  A Player's Name is stored but    *)
(* never read by the core, and is left out.  The tick goroutine is a small *)
(* program counter; the code that runs under g.mu is atomic with respect   *)
(* to every other user of g.mu, which is modelled by the guard mu = "free" *)
(* of the lock-taking operations.                                          *)
(***************************************************************************)
EXTENDS Integers, Sequences, FiniteSets, TLC

\* ---------------------------------------------------------------- bounds
\* grid width and height handed to NewGame (10 x 10 for game.Default)
GridW == 2
GridH == 2
\* largest nSweets handed to NewGame (20 for game.Default), and the largest
\* one of the specification that looks at several sweets
MaxSweets == 1
ManySweets == 2
\* largest number of simultaneously live players the environment creates
MaxPlayers == 2
\* capacity of g.commands (1024 in NewGame)
QueueCap == 2
\* largest number of commands in flight (queued or drained, not yet resolved)
\* the producers build up: any command shape, and directional bursts
MaxBatch == 2
BurstBatch == 3
ApiBatch == 1
SweetsBatch == 1
\* the same for the resolver with a cap of moves: one more than a refused
\* move and MaxMovesPerTick accepted ones
CapBatch == 4
\* capacity of g.EventBroadcast and g.StateBroadcast (10 in NewGame)
EventCap == 1
StateCap == 1
\* number of ticks the ticker delivers
MaxTick == 2
\* snapshots the forwarder may still have to take when the ticker fires
MaxBacklog == 0
\* the round variant: sweets a Restart regenerates (20 in Restart), accepted
\* moves per player and tick (const MaxMovesPerTick), commands in flight
RestartSweets == 1
MaxMovesPerTick == 2
RoundBatch == 1
\* dropped commands the history counts
MaxDrops == 1
\* websocket sessions alive at a time, and the capacity of a session's send
\* channel (256 in WS)
MaxClients == 2
SendCap == 1
\* the capacity of c.send where the order inside the buffer matters
WideCap == 2

VARIABLES
    players,         \* g.players : id -> [X, Y, Score]
    sweets,          \* g.sweets  : id -> [X, Y]
    commands,        \* g.commands, the buffered channel, head first
    EventBroadcast,  \* g.EventBroadcast, head first
    StateBroadcast,  \* g.StateBroadcast, head first
    tick,            \* g.tick
    mu,              \* g.mu : "free" or "tick" (held by applyCommands)
    pc,              \* position of the tick goroutine
    cmds,            \* applyCommands: the drained slice
    entries,         \* applyCommands: players ordered by last arrival index
    next,            \* applyCommands: index in entries of the next one
    occupied,        \* applyCommands: the occupancy map, cell -> id
    pre,             \* history: g.players, g.sweets when applyCommands (or
                     \* Restart, then with g.commands) took g.mu
    accepted,        \* accepted moves of this tick, per player id: history,
                     \* and movesCount of the round variant
    removed,         \* history: ids of the sweets deleted so far
    gameOvers,       \* history: game_over events handed to EventBroadcast
                     \* in the current round
    nSweets,         \* history: the nSweets NewGame was called with
    drops,           \* history: commands PushCommand dropped
    post,            \* history: g.players, g.sweets when applyCommands returned
    snaps,           \* history: snapshots broadcastState tried to send
    clients,         \* h.clients : the registered sessions
    send,            \* c.send of every connected session, head first
    closed,          \* the sessions whose c.send has been closed
    fanout,          \* Hub.run: the message being fanned out, the sessions the
                     \* range loop has still to visit, and those it has
                     \* visited, in order
    held,            \* the message each forwarder has received and not yet
                     \* handed to the hub
    sessions,        \* the clients whose readPump is running: c.playerID (0
                     \* for ""), the position of readPump, and as history the
                     \* last message it received and the reply it wrote for it
    dispatched       \* history: the messages Hub.run has taken from
                     \* hub.broadcast, in order

hub == <<clients, send, closed, fanout, held, sessions, dispatched>>

vars == <<players, sweets, commands, EventBroadcast, StateBroadcast, tick, mu,
          pc, cmds, entries, next, occupied, pre, accepted, removed, gameOvers,
          nSweets, drops, post, snaps, hub>>

\* ---------------------------------------------------------------- helpers
min(a, b) == IF a < b THEN a ELSE b

max(a, b) == IF a > b THEN a ELSE b

\* a clamp that forgets the upper bound
clampLow(v, a, b) == IF v < a THEN a ELSE v

clamp(v, a, b) == IF v < a THEN a ELSE IF v > b THEN b ELSE v

Cells == (0 .. GridW - 1) \X (0 .. GridH - 1)

EmptyMap == [k \in {} |-> 0]

Put(m, k, v) == [j \in DOMAIN m \cup {k} |-> IF j = k THEN v ELSE m[j]]

Delete(m, k) == [j \in DOMAIN m \ {k} |-> m[j]]

Pos(p) == <<p.X, p.Y>>

NoWorld == [players |-> EmptyMap, sweets |-> EmptyMap]

\* Hub.run is waiting in its select: no fan-out in progress
NoFanout == [msg |-> <<>>, todo |-> {}, done |-> <<>>]

\* the two forwarding goroutines of ws.go, and what they hold when they
\* hold nothing
Forwarders == {"state", "event"}

NoneHeld == [k \in Forwarders |-> <<>>]

ClientIDs == 1 .. MaxClients

\* the ids the bounded environment can ever see: len(g.players)+1 <= MaxPlayers
PlayerIDs == 1 .. MaxPlayers

\* what a session sends (ws.go readPump): a "move" with one of the directions
Dirs == {"up", "down", "left", "right"}

MoveInputs == {[Type |-> "move", Dir |-> d, X |-> 0, Y |-> 0] : d \in Dirs}

\* the two directions of a burst
BurstInputs == {[Type |-> "move", Dir |-> d, X |-> 0, Y |-> 0] : d \in {"right", "up"}}

\* what a caller of PushCommand can hand over: any direction string, an
\* absolute target inside, below or beyond the grid, any command type
AbsTargets == {<<-1, GridH>>, <<GridW, -1>>, <<GridW - 1, 0>>}

ApiInputs ==
    {[Type |-> "move", Dir |-> d, X |-> 0, Y |-> 0] : d \in Dirs \cup {""}}
    \cup {[Type |-> "move_abs", Dir |-> "", X |-> t[1], Y |-> t[2]] : t \in AbsTargets}
    \cup {[Type |-> "", Dir |-> "", X |-> 0, Y |-> 0]}

Command(id, c) == [PlayerID |-> id, Type |-> c.Type, Dir |-> c.Dir, X |-> c.X, Y |-> c.Y]

\* ---------------------------------------------------------------- NewGame
\* NewGame(w, h, nSweets): no player, nSweets sweets s1..sn each on a cell
\* drawn with rand.Intn, empty channels, tick 0.
NewGame(n, place) ==
    /\ players = EmptyMap
    /\ sweets = [i \in 1 .. n |-> [X |-> place[i][1], Y |-> place[i][2]]]
    /\ commands = <<>>
    /\ EventBroadcast = <<>>
    /\ StateBroadcast = <<>>
    /\ tick = 0

InitWith(maxSweets) ==
    /\ \E n \in 0 .. maxSweets : \E place \in [1 .. n -> Cells] :
           NewGame(n, place) /\ nSweets = n
    /\ mu = "free"
    /\ pc = "wait"
    /\ cmds = <<>>
    /\ entries = <<>>
    /\ next = 1
    /\ occupied = EmptyMap
    /\ pre = NoWorld
    /\ accepted = EmptyMap
    /\ removed = {}
    /\ gameOvers = 0
    /\ drops = 0
    /\ post = NoWorld
    /\ snaps = 0
    /\ clients = {}
    /\ send = EmptyMap
    /\ closed = {}
    /\ fanout = NoFanout
    /\ held = NoneHeld
    /\ sessions = EmptyMap
    /\ dispatched = <<>>

Init == InitWith(MaxSweets)

\* ---------------------------------------------------------------- AddPlayer
\* a probe that finds every cell taken
FreeNowhere(ps, cell) == FALSE

\* the inner loop of AddPlayer: no live player stands on (x, y)
Free(ps, cell) == \A q \in DOMAIN ps : Pos(ps[q]) # cell

\* fmt.Sprintf("p-%d", len(g.players)+1)
NewID(ps) == Cardinality(DOMAIN ps) + 1

\* A thousand random probes, then the row-major scan: the player lands on
\* some free cell if there is one, otherwise AddPlayer returns nil and the
\* world is unchanged.
AddPlayer ==
    /\ mu = "free"
    /\ Cardinality(DOMAIN players) < MaxPlayers
    /\ IF \E cell \in Cells : Free(players, cell)
       THEN \E cell \in Cells :
                /\ Free(players, cell)
                /\ players' = Put(players, NewID(players),
                                  [X |-> cell[1], Y |-> cell[2], Score |-> 0])
       ELSE players' = players
    /\ UNCHANGED <<sweets, commands, EventBroadcast, StateBroadcast, tick, mu, pc,
                   cmds, entries, next, occupied, pre, accepted, removed, gameOvers,
                   nSweets, drops, post, snaps, hub>>

\* ---------------------------------------------------------------- RemovePlayer
RemovePlayer(id) ==
    /\ mu = "free"
    /\ players' = Delete(players, id)
    /\ UNCHANGED <<sweets, commands, EventBroadcast, StateBroadcast, tick, mu, pc,
                   cmds, entries, next, occupied, pre, accepted, removed, gameOvers,
                   nSweets, drops, post, snaps, hub>>

\* ---------------------------------------------------------------- PushCommand
\* a send into a buffer that grows
TrySendGrow(ch, cap, m) == Append(ch, m)

\* a send that makes room by evicting the oldest message
TrySendEvict(ch, cap, m) == IF Len(ch) < cap THEN Append(ch, m) ELSE Append(Tail(ch), m)

\* select { case ch <- m: default: } on a buffered channel of capacity cap
TrySend(ch, cap, m) == IF Len(ch) < cap THEN Append(ch, m) ELSE ch

PushCommand(c, limit) ==
    /\ Len(cmds) + Len(commands) < limit
    /\ commands' = TrySend(commands, QueueCap, c)
    /\ UNCHANGED <<players, sweets, EventBroadcast, StateBroadcast, tick, mu, pc,
                   cmds, entries, next, occupied, pre, accepted, removed, gameOvers,
                   nSweets, post, snaps, hub>>

\* ---------------------------------------------------------------- Start
\* a loop body that forgets g.tick++
TickStuck ==
    /\ pc = "wait"
    /\ tick < MaxTick
    /\ pc' = "drain"
    /\ UNCHANGED <<players, sweets, commands, EventBroadcast, StateBroadcast, tick, mu,
                   cmds, entries, next, occupied, pre, accepted, removed, gameOvers,
                   nSweets, drops, post, snaps, hub>>

\* a loop body that counts the tick twice
TickTwice ==
    /\ pc = "wait"
    /\ tick < MaxTick
    /\ tick' = tick + 2
    /\ pc' = "drain"
    /\ UNCHANGED <<players, sweets, commands, EventBroadcast, StateBroadcast, mu,
                   cmds, entries, next, occupied, pre, accepted, removed, gameOvers,
                   nSweets, drops, post, snaps, hub>>

\* the ticker fires: g.tick++, then applyCommands starts draining
Tick ==
    /\ pc = "wait"
    /\ tick < MaxTick
    /\ tick' = tick + 1
    /\ pc' = "drain"
    /\ UNCHANGED <<players, sweets, commands, EventBroadcast, StateBroadcast, mu,
                   cmds, entries, next, occupied, pre, accepted, removed, gameOvers,
                   nSweets, drops, post, snaps, hub>>

\* a tick that finds the forwarder of ws.go no more than MaxBacklog snapshots late
TickStart == Len(StateBroadcast) <= MaxBacklog /\ Tick

\* ---------------------------------------------------------------- applyCommands
\* a receive that takes the newest message
ReceiveNewest(ch) == [msg |-> ch[Len(ch)], rest |-> SubSeq(ch, 1, Len(ch) - 1)]

\* <-ch on a non-empty buffered channel: the oldest message leaves it
Receive(ch) == [msg |-> Head(ch), rest |-> Tail(ch)]

\* case c := <-g.commands: cmds = append(cmds, c)
DrainRecv ==
    /\ pc = "drain"
    /\ commands # <<>>
    /\ cmds' = Append(cmds, Receive(commands).msg)
    /\ commands' = Receive(commands).rest
    /\ UNCHANGED <<players, sweets, EventBroadcast, StateBroadcast, tick, mu, pc,
                   entries, next, occupied, pre, accepted, removed, gameOvers,
                   nSweets, drops, post, snaps, hub>>

\* a grouping that keeps the first command of each player
RECURSIVE LastFirst(_, _)
LastFirst(cs, k) ==
    IF k = 0 THEN EmptyMap
    ELSE LET m == LastFirst(cs, k - 1)
         IN IF cs[k].PlayerID \in DOMAIN m THEN m ELSE Put(m, cs[k].PlayerID, cs[k])

\* last[c.PlayerID] = c, for idx = 1 .. k in order
RECURSIVE Last(_, _)
Last(cs, k) ==
    IF k = 0 THEN EmptyMap ELSE Put(Last(cs, k - 1), cs[k].PlayerID, cs[k])

\* an index map that keeps the first arrival index of each player
RECURSIVE LastIndexFirst(_, _)
LastIndexFirst(cs, k) ==
    IF k = 0 THEN EmptyMap
    ELSE LET m == LastIndexFirst(cs, k - 1)
         IN IF cs[k].PlayerID \in DOMAIN m THEN m ELSE Put(m, cs[k].PlayerID, k)

\* lastIndex[c.PlayerID] = idx, for idx = 1 .. k in order
RECURSIVE LastIndex(_, _)
LastIndex(cs, k) ==
    IF k = 0 THEN EmptyMap ELSE Put(LastIndex(cs, k - 1), cs[k].PlayerID, k)

\* a priority by player id instead of arrival index
RECURSIVE SortEntriesById(_)
SortEntriesById(li) ==
    IF DOMAIN li = {} THEN <<>>
    ELSE LET id == CHOOSE a \in DOMAIN li : \A b \in DOMAIN li : a <= b
         IN <<[id |-> id, idx |-> li[id]]>> \o SortEntriesById(Delete(li, id))

\* sort.Slice(entries, idx ascending) of the entries {id, idx} of lastIndex
RECURSIVE SortEntries(_)
SortEntries(li) ==
    IF DOMAIN li = {} THEN <<>>
    ELSE LET id == CHOOSE a \in DOMAIN li : \A b \in DOMAIN li : li[a] <= li[b]
         IN <<[id |-> id, idx |-> li[id]]>> \o SortEntries(Delete(li, id))

Entries(cs) == SortEntries(LastIndex(cs, Len(cs)))

\* occupied[[2]int{p.X, p.Y}] = p.ID for every player, in map order: a cell
\* shared by several players keeps any one of them
OccupancyMaps(ps) ==
    LET cells == {Pos(ps[q]) : q \in DOMAIN ps}
    IN {f \in [cells -> DOMAIN ps] : \A cell \in cells : Pos(ps[f[cell]]) = cell}

\* default: goto PROCESS; an empty batch returns without taking g.mu,
\* otherwise group, sort, take g.mu and build the occupancy map
DrainEmpty ==
    /\ pc = "drain"
    /\ commands = <<>>
    /\ IF cmds = <<>>
       THEN /\ pc' = "bcast"
            /\ post' = [players |-> players, sweets |-> sweets]
            /\ UNCHANGED <<mu, entries, next, occupied, pre>>
       ELSE /\ mu = "free"
            /\ mu' = "tick"
            /\ pc' = "resolve"
            /\ entries' = Entries(cmds)
            /\ next' = 1
            /\ occupied' \in OccupancyMaps(players)
            /\ pre' = [players |-> players, sweets |-> sweets]
            /\ UNCHANGED post
    /\ UNCHANGED <<players, sweets, commands, EventBroadcast, StateBroadcast, tick,
                   cmds, accepted, removed, gameOvers, nSweets, drops, snaps, hub>>

\* the desired position nx, ny of player p under command c
Dest(p, c) ==
    IF c.Type = "move" THEN
        CASE c.Dir = "up"    -> <<p.X, max(0, p.Y - 1)>>
          [] c.Dir = "down"  -> <<p.X, min(GridH - 1, p.Y + 1)>>
          [] c.Dir = "left"  -> <<max(0, p.X - 1), p.Y>>
          [] c.Dir = "right" -> <<min(GridW - 1, p.X + 1), p.Y>>
          [] OTHER           -> <<p.X, p.Y>>
    ELSE IF c.Type = "move_abs" THEN
        <<clamp(c.X, 0, GridW - 1), clamp(c.Y, 0, GridH - 1)>>
    ELSE <<p.X, p.Y>>

\* an occupancy test that forgets "occ != p.ID"
ConflictAny(occ, id, cell) == cell \in DOMAIN occ

\* a resolver without the occupancy test
ConflictNever(occ, id, cell) == FALSE

\* an occupancy test with the comparison the wrong way round
ConflictInverted(occ, id, cell) == cell \in DOMAIN occ /\ occ[cell] = id

\* occ, exists := occupied[{nx, ny}]; exists && occ != p.ID
Conflict(occ, id, cell) == cell \in DOMAIN occ /\ occ[cell] # id

\* the sweets the pickup loop can meet first on the mover's cell
SweetsAt(sw, cell) == {sid \in DOMAIN sw : Pos(sw[sid]) = cell}

\* the collected event, sent without blocking
Collected(id, sid, t) ==
    [type |-> "event", event |-> "collected", player |-> id, sweet |-> sid, tick |-> t]

\* a pickup loop without its break: every sweet of the cell goes
DeleteSweetsAt(sw, sid) ==
    [j \in {k \in DOMAIN sw : Pos(sw[k]) # Pos(sw[sid])} |-> sw[j]]

\* a pickup that scores but forgets the delete
KeepSweet(sw, sid) == sw

\* delete(g.sweets, sid)
DeleteSweet(sw, sid) == Delete(sw, sid)

\* a pickup worth two points
ScoredTwice(p) == p.Score + 2

\* p.Score++
Scored(p) == p.Score + 1

\* an occupancy map that keeps the cell a mover has left
VacateNever(occ, from, cell, id) == Put(occ, cell, id)

\* delete(occupied, {p.X, p.Y}); occupied[{nx, ny}] = p.ID
Vacate(occ, from, cell, id) == Put(Delete(occ, from), cell, id)

\* one iteration of "for _, e := range entries"
ResolveStep ==
    /\ pc = "resolve"
    /\ LET id == entries[next].id
           c == Last(cmds, Len(cmds))[id]
       IN IF id \notin DOMAIN players
          THEN UNCHANGED <<players, sweets, EventBroadcast, occupied, accepted, removed>>
          ELSE LET p == players[id]
                   cell == Dest(p, c)
               IN IF Conflict(occupied, id, cell)
                  THEN UNCHANGED <<players, sweets, EventBroadcast, occupied,
                                   accepted, removed>>
                  ELSE /\ occupied' = Vacate(occupied, Pos(p), cell, id)
                       /\ accepted' = Put(accepted, id,
                                          IF id \in DOMAIN accepted
                                          THEN accepted[id] + 1 ELSE 1)
                       /\ IF SweetsAt(sweets, cell) = {}
                          THEN /\ players' = [players EXCEPT ![id].X = cell[1],
                                                             ![id].Y = cell[2]]
                               /\ UNCHANGED <<sweets, EventBroadcast, removed>>
                          ELSE \E sid \in SweetsAt(sweets, cell) :
                                 /\ players' = [players EXCEPT
                                                  ![id].X = cell[1],
                                                  ![id].Y = cell[2],
                                                  ![id].Score = Scored(p)]
                                 /\ sweets' = DeleteSweet(sweets, sid)
                                 /\ removed' = removed \cup {sid}
                                 /\ EventBroadcast' =
                                        TrySend(EventBroadcast, EventCap,
                                                Collected(id, sid, tick))
    /\ next' = next + 1
    /\ pc' = IF next = Len(entries) THEN "unlock" ELSE "resolve"
    /\ UNCHANGED <<commands, StateBroadcast, tick, mu, cmds, entries, pre, gameOvers,
                   nSweets, drops, post, snaps, hub>>

\* the deferred g.mu.Unlock() and the return of applyCommands
Unlock ==
    /\ pc = "unlock"
    /\ mu' = "free"
    /\ pc' = "bcast"
    /\ cmds' = <<>>
    /\ entries' = <<>>
    /\ next' = 1
    /\ occupied' = EmptyMap
    /\ pre' = NoWorld
    /\ accepted' = EmptyMap
    /\ post' = [players |-> players, sweets |-> sweets]
    /\ UNCHANGED <<players, sweets, commands, EventBroadcast, StateBroadcast, tick,
                   removed, gameOvers, nSweets, drops, snaps, hub>>

\* ---------------------------------------------------------------- broadcastState
\* a snapshot stamped with the tick before
StateMessageStale(t, ps, sw) ==
    [Type |-> "state", Tick |-> t - 1, Players |-> ps, Sweets |-> sw]

\* StateMessage{Type: "state", Tick: g.tick, Players: copies, Sweets: copies}
StateMessage(t, ps, sw) == [Type |-> "state", Tick |-> t, Players |-> ps, Sweets |-> sw]

\* copy players and sweets under g.mu, marshal, send without blocking; the
\* tick goroutine goes on at position then
broadcastStateThen(then) ==
    /\ pc = "bcast"
    /\ mu = "free"
    /\ StateBroadcast' = TrySend(StateBroadcast, StateCap,
                                 StateMessage(tick, players, sweets))
    /\ pc' = then
    /\ post' = NoWorld
    /\ snaps' = snaps + 1
    /\ UNCHANGED <<players, sweets, commands, EventBroadcast, tick, mu,
                   cmds, entries, next, occupied, pre, accepted, removed, gameOvers,
                   nSweets, drops, hub>>

\* game.go: the loop body ends with broadcastState
broadcastState == broadcastStateThen("wait")

\* ---------------------------------------------------------------- the round variant
\* The copy of game.go with rounds: its applyCommands walks every drained
\* command in arrival order under a cap of accepted moves per player, its
\* Start announces the end of the round and calls Restart.

\* the desired position: this switch knows "move" only
DestMove(p, c) ==
    IF c.Type = "move" THEN
        CASE c.Dir = "up"    -> <<p.X, max(0, p.Y - 1)>>
          [] c.Dir = "down"  -> <<p.X, min(GridH - 1, p.Y + 1)>>
          [] c.Dir = "left"  -> <<max(0, p.X - 1), p.Y>>
          [] c.Dir = "right" -> <<min(GridW - 1, p.X + 1), p.Y>>
          [] OTHER           -> <<p.X, p.Y>>
    ELSE <<p.X, p.Y>>

\* for _, other := range g.players: other.ID != p.ID, other on (nx, ny)
collision(ps, id, cell) == \E q \in DOMAIN ps \ {id} : Pos(ps[q]) = cell

\* movesCount[id], zero for an absent key
movesCount(m, id) == IF id \in DOMAIN m THEN m[id] ELSE 0

\* a resolver that never finds the cap reached
CappedNever(m, id) == FALSE

\* movesCount[c.PlayerID] >= MaxMovesPerTick
Capped(m, id) == movesCount(m, id) >= MaxMovesPerTick

\* default: goto PROCESS; an empty batch returns without taking g.mu,
\* otherwise take g.mu and start with an empty movesCount (kept in accepted)
DrainEmptyCap ==
    /\ pc = "drain"
    /\ commands = <<>>
    /\ IF cmds = <<>>
       THEN /\ pc' = "bcast"
            /\ post' = [players |-> players, sweets |-> sweets]
            /\ UNCHANGED <<mu, next, pre, accepted>>
       ELSE /\ mu = "free"
            /\ mu' = "tick"
            /\ pc' = "moves"
            /\ next' = 1
            /\ accepted' = EmptyMap
            /\ pre' = [players |-> players, sweets |-> sweets]
            /\ UNCHANGED post
    /\ UNCHANGED <<players, sweets, commands, EventBroadcast, StateBroadcast, tick,
                   cmds, entries, occupied, removed, gameOvers, nSweets, drops,
                   snaps, hub>>

\* one iteration of "for _, c := range cmds"
ResolveCapStep ==
    /\ pc = "moves"
    /\ LET c == cmds[next]
           id == c.PlayerID
       IN IF Capped(accepted, id) \/ id \notin DOMAIN players
          THEN UNCHANGED <<players, sweets, EventBroadcast, accepted, removed>>
          ELSE LET p == players[id]
                   cell == DestMove(p, c)
               IN IF collision(players, id, cell)
                  THEN UNCHANGED <<players, sweets, EventBroadcast, accepted, removed>>
                  ELSE /\ accepted' = Put(accepted, id, movesCount(accepted, id) + 1)
                       /\ IF SweetsAt(sweets, cell) = {}
                          THEN /\ players' = [players EXCEPT ![id].X = cell[1],
                                                             ![id].Y = cell[2]]
                               /\ UNCHANGED <<sweets, EventBroadcast, removed>>
                          ELSE \E sid \in SweetsAt(sweets, cell) :
                                 /\ players' = [players EXCEPT
                                                  ![id].X = cell[1],
                                                  ![id].Y = cell[2],
                                                  ![id].Score = p.Score + 1]
                                 /\ sweets' = DeleteSweet(sweets, sid)
                                 /\ removed' = removed \cup {sid}
                                 /\ EventBroadcast' =
                                        TrySend(EventBroadcast, EventCap,
                                                Collected(id, sid, tick))
    /\ next' = next + 1
    /\ pc' = IF next = Len(cmds) THEN "unlock" ELSE "moves"
    /\ UNCHANGED <<commands, StateBroadcast, tick, mu, cmds, entries, occupied, pre,
                   gameOvers, nSweets, drops, post, snaps, hub>>

\* the loop body goes on after broadcastState
broadcastStateRound == broadcastStateThen("over")

\* the game_over message; the scores slice is in map order
GameOverMessage(ps) ==
    [type |-> "game_over",
     scores |-> {[id |-> q, score |-> ps[q].Score] : q \in DOMAIN ps}]

\* if g.SweetsCount() == 0: copy the scores under g.mu, send the game_over
\* without blocking, then sleep; otherwise wait for the next tick
GameOver ==
    /\ pc = "over"
    /\ mu = "free"
    /\ IF DOMAIN sweets = {}
       THEN /\ EventBroadcast' = TrySend(EventBroadcast, EventCap,
                                         GameOverMessage(players))
            /\ gameOvers' = IF Len(EventBroadcast) < EventCap
                            THEN gameOvers + 1 ELSE gameOvers
            /\ pc' = "sleep"
       ELSE /\ pc' = "wait"
            /\ UNCHANGED <<EventBroadcast, gameOvers>>
    /\ UNCHANGED <<players, sweets, commands, StateBroadcast, tick, mu,
                   cmds, entries, next, occupied, pre, accepted, removed,
                   nSweets, drops, post, snaps, hub>>

\* a reset that leaves the scores
ResetScoresKeep(ps) == ps

\* for _, p := range g.players { p.Score = 0 }
ResetScores(ps) == [q \in DOMAIN ps |-> [ps[q] EXCEPT !.Score = 0]]

\* g.sweets = make(...); s1 .. sn on cells drawn with rand.Intn
Regenerated(n, place) == [i \in 1 .. n |-> [X |-> place[i][1], Y |-> place[i][2]]]

\* Restart after the sleep: take g.mu, reset the scores, regenerate the
\* sweets, then start clearing the pending commands
RestartBegin ==
    /\ pc = "sleep"
    /\ mu = "free"
    /\ mu' = "tick"
    /\ pc' = "flush"
    /\ players' = ResetScores(players)
    /\ \E place \in [1 .. RestartSweets -> Cells] :
           sweets' = Regenerated(RestartSweets, place)
    /\ pre' = [players |-> players, sweets |-> sweets, commands |-> commands]
    /\ removed' = {}
    /\ gameOvers' = 0
    /\ UNCHANGED <<commands, EventBroadcast, StateBroadcast, tick,
                   cmds, entries, next, occupied, accepted,
                   nSweets, drops, post, snaps, hub>>

\* the forwarders of ws.go are no more than MaxBacklog messages late when
\* the five seconds of sleep are over
RestartAfterSleep ==
    /\ Len(StateBroadcast) <= MaxBacklog
    /\ Len(EventBroadcast) <= MaxBacklog
    /\ RestartBegin

\* case <-g.commands: the command is thrown away
RestartRecv ==
    /\ pc = "flush"
    /\ commands # <<>>
    /\ commands' = Tail(commands)
    /\ UNCHANGED <<players, sweets, EventBroadcast, StateBroadcast, tick, mu, pc,
                   cmds, entries, next, occupied, pre, accepted, removed, gameOvers,
                   nSweets, drops, post, snaps, hub>>

\* default: break LOOP, the deferred g.mu.Unlock() and the return
RestartDone ==
    /\ pc = "flush"
    /\ commands = <<>>
    /\ mu' = "free"
    /\ pc' = "wait"
    /\ pre' = NoWorld
    /\ UNCHANGED <<players, sweets, commands, EventBroadcast, StateBroadcast, tick,
                   cmds, entries, next, occupied, accepted, removed, gameOvers,
                   nSweets, drops, post, snaps, hub>>

\* ---------------------------------------------------------------- forwarders
\* for b := range game.Default.StateBroadcast
RecvState ==
    /\ StateBroadcast # <<>>
    /\ StateBroadcast' = Tail(StateBroadcast)
    /\ UNCHANGED <<players, sweets, commands, EventBroadcast, tick, mu, pc,
                   cmds, entries, next, occupied, pre, accepted, removed, gameOvers,
                   nSweets, drops, post, snaps, hub>>

\* for b := range game.Default.EventBroadcast
RecvEvent ==
    /\ EventBroadcast # <<>>
    /\ EventBroadcast' = Tail(EventBroadcast)
    /\ UNCHANGED <<players, sweets, commands, StateBroadcast, tick, mu, pc,
                   cmds, entries, next, occupied, pre, accepted, removed, gameOvers,
                   nSweets, drops, post, snaps, hub>>

\* ---------------------------------------------------------------- the hub
\* a client that has just been created: no player, nothing received
NewSession ==
    [playerID |-> 0, at |-> "read", last |-> <<>>, reply |-> "", writer |-> "recv"]

\* WS: a new Client with its buffered send channel, handed to the hub on
\* the unbuffered register channel, which Hub.run takes in its select; then
\* writePump and readPump run
Register(c) ==
    /\ c \notin DOMAIN send
    /\ c \notin DOMAIN sessions
    /\ fanout = NoFanout
    /\ send' = Put(send, c, <<>>)
    /\ clients' = clients \cup {c}
    /\ sessions' = Put(sessions, c, NewSession)
    /\ UNCHANGED <<players, sweets, commands, EventBroadcast, StateBroadcast, tick, mu,
                   pc, cmds, entries, next, occupied, pre, accepted, removed,
                   gameOvers, nSweets, drops, post, snaps, closed, fanout, held,
                   dispatched>>

\* the mark left in closed by a close of, or a send on, a channel that is
\* already closed: the runtime panics
Panic == 0

\* close(c.send); a closed channel whose writePump has returned is no longer
\* in send
Close(cl, c) ==
    IF c \in cl \/ c \notin DOMAIN send THEN cl \cup {Panic} ELSE cl \cup {c}

\* an unregistration that does not look the client up
RegisteredAlways(c) == TRUE

\* _, ok := hub.clients[c]
Registered(c) == c \in clients

\* WS: a new Client with its buffered send channel, blocked in
\* h.register <- client until Hub.run takes it
Connect(c) ==
    /\ c \notin DOMAIN send
    /\ c \notin DOMAIN sessions
    /\ send' = Put(send, c, <<>>)
    /\ sessions' = Put(sessions, c, [NewSession EXCEPT !.at = "reg"])
    /\ UNCHANGED <<players, sweets, commands, EventBroadcast, StateBroadcast, tick, mu,
                   pc, cmds, entries, next, occupied, pre, accepted, removed,
                   gameOvers, nSweets, drops, post, snaps, clients, closed, fanout,
                   held, dispatched>>

\* case c := <-hub.register: hub.clients[c] = true; WS goes on to start
\* writePump and to run readPump
HubRegister(c) ==
    /\ c \in DOMAIN sessions
    /\ sessions[c].at = "reg"
    /\ fanout = NoFanout
    /\ clients' = clients \cup {c}
    /\ sessions' = [sessions EXCEPT ![c].at = "read"]
    /\ UNCHANGED <<players, sweets, commands, EventBroadcast, StateBroadcast, tick, mu,
                   pc, cmds, entries, next, occupied, pre, accepted, removed,
                   gameOvers, nSweets, drops, post, snaps, send, closed, fanout,
                   held, dispatched>>

\* the deferred function of readPump is blocked in h.unregister <- c and
\* Hub.run takes it in its select: a client that is still registered is
\* deleted and its send channel closed; then readPump closes the connection
\* and returns
Unregister(c) ==
    /\ c \in DOMAIN sessions
    /\ sessions[c].at = "unreg"
    /\ fanout = NoFanout
    /\ clients' = clients \ {c}
    /\ closed' = IF Registered(c) THEN Close(closed, c) ELSE closed
    /\ sessions' = Delete(sessions, c)
    /\ UNCHANGED <<players, sweets, commands, EventBroadcast, StateBroadcast, tick, mu,
                   pc, cmds, entries, next, occupied, pre, accepted, removed,
                   gameOvers, nSweets, drops, post, snaps, send, fanout, held,
                   dispatched>>

\* for b := range game.Default.StateBroadcast: the forwarder has b
TakeState ==
    /\ held["state"] = <<>>
    /\ StateBroadcast # <<>>
    /\ held' = [held EXCEPT !["state"] = <<Head(StateBroadcast)>>]
    /\ StateBroadcast' = Tail(StateBroadcast)
    /\ UNCHANGED <<players, sweets, commands, EventBroadcast, tick, mu,
                   pc, cmds, entries, next, occupied, pre, accepted, removed,
                   gameOvers, nSweets, drops, post, snaps, clients, send, closed,
                   fanout, sessions, dispatched>>

\* for b := range game.Default.EventBroadcast: the forwarder has b
TakeEvent ==
    /\ held["event"] = <<>>
    /\ EventBroadcast # <<>>
    /\ held' = [held EXCEPT !["event"] = <<Head(EventBroadcast)>>]
    /\ EventBroadcast' = Tail(EventBroadcast)
    /\ UNCHANGED <<players, sweets, commands, StateBroadcast, tick, mu,
                   pc, cmds, entries, next, occupied, pre, accepted, removed,
                   gameOvers, nSweets, drops, post, snaps, clients, send, closed,
                   fanout, sessions, dispatched>>

\* h.broadcast <- b meets case msg := <-hub.broadcast: the hub takes its
\* lock and starts ranging over hub.clients
HubBroadcast(k) ==
    /\ held[k] # <<>>
    /\ fanout = NoFanout
    /\ fanout' = [msg |-> held[k], todo |-> clients, done |-> <<>>]
    /\ held' = [held EXCEPT ![k] = <<>>]
    /\ dispatched' = dispatched \o held[k]
    /\ UNCHANGED <<players, sweets, commands, EventBroadcast, StateBroadcast, tick, mu,
                   pc, cmds, entries, next, occupied, pre, accepted, removed,
                   gameOvers, nSweets, drops, post, snaps, clients, send, closed,
                   sessions>>

\* a range loop that stops at the first session it disconnects
RemainingUnlessKicked(todo, c, full) == IF full THEN {} ELSE todo \ {c}

\* for c := range hub.clients goes on with the sessions not yet visited
Remaining(todo, c, full) == todo \ {c}

\* a send that jumps the queue
ChanSendFirst(ch, m) == <<m>> \o ch

\* c.send <- msg on a buffered channel with room: msg is the newest
ChanSend(ch, m) == Append(ch, m)

\* a send without the default case waits for room in the buffer
SelectsBlocking(full) == ~full

\* select { case c.send <- msg: default: ... } always takes one of its cases
Selects(full) == TRUE

\* one iteration of the range loop, in map order: select { case c.send <-
\* msg: default: close(c.send); delete(hub.clients, c) }, the buffer of
\* c.send holding cap messages
FanoutStepCap(cap) ==
    /\ fanout.msg # <<>>
    /\ \E c \in fanout.todo :
           LET gone == c \in closed \/ c \notin DOMAIN send
               full == ~gone /\ Len(send[c]) >= cap
           IN /\ Selects(full)
              /\ IF gone
                 THEN /\ closed' = closed \cup {Panic}
                      /\ UNCHANGED <<clients, send>>
                 ELSE IF full
                 THEN /\ closed' = Close(closed, c)
                      /\ clients' = clients \ {c}
                      /\ UNCHANGED send
                 ELSE /\ send' = [send EXCEPT ![c] = ChanSend(@, fanout.msg[1])]
                      /\ UNCHANGED <<clients, closed>>
              /\ fanout' = [fanout EXCEPT !.todo = Remaining(fanout.todo, c, full),
                                          !.done = Append(@, c)]
    /\ UNCHANGED <<players, sweets, commands, EventBroadcast, StateBroadcast, tick, mu,
                   pc, cmds, entries, next, occupied, pre, accepted, removed,
                   gameOvers, nSweets, drops, post, snaps, held, sessions,
                   dispatched>>

FanoutStep == FanoutStepCap(SendCap)

\* the range loop is over: hub.mu.Unlock() and back to the select
FanoutDone ==
    /\ fanout.msg # <<>>
    /\ fanout.todo = {}
    /\ fanout' = NoFanout
    /\ UNCHANGED <<players, sweets, commands, EventBroadcast, StateBroadcast, tick, mu,
                   pc, cmds, entries, next, occupied, pre, accepted, removed,
                   gameOvers, nSweets, drops, post, snaps, clients, send, closed,
                   held, sessions, dispatched>>

\* writePump: for msg := range c.send { c.conn.WriteMessage(msg) }, on a
\* connection that readPump has not closed
WritePump(c) ==
    /\ c \in DOMAIN send
    /\ c \in DOMAIN sessions
    /\ send[c] # <<>>
    /\ send' = [send EXCEPT ![c] = Tail(@)]
    /\ UNCHANGED <<players, sweets, commands, EventBroadcast, StateBroadcast, tick, mu,
                   pc, cmds, entries, next, occupied, pre, accepted, removed,
                   gameOvers, nSweets, drops, post, snaps, clients, closed, fanout,
                   held, sessions, dispatched>>

\* writePump receives msg from c.send and enters c.conn.WriteMessage
WritePumpBegin(c) ==
    /\ c \in DOMAIN send
    /\ c \in DOMAIN sessions
    /\ sessions[c].writer = "recv"
    /\ send[c] # <<>>
    /\ send' = [send EXCEPT ![c] = Tail(@)]
    /\ sessions' = [sessions EXCEPT ![c].writer = "write"]
    /\ UNCHANGED <<players, sweets, commands, EventBroadcast, StateBroadcast, tick, mu,
                   pc, cmds, entries, next, occupied, pre, accepted, removed,
                   gameOvers, nSweets, drops, post, snaps, clients, closed, fanout,
                   held, dispatched>>

\* c.conn.WriteMessage returns and writePump goes back to the range
WritePumpEnd(c) ==
    /\ c \in DOMAIN sessions
    /\ sessions[c].writer = "write"
    /\ sessions' = [sessions EXCEPT ![c].writer = "recv"]
    /\ UNCHANGED <<players, sweets, commands, EventBroadcast, StateBroadcast, tick, mu,
                   pc, cmds, entries, next, occupied, pre, accepted, removed,
                   gameOvers, nSweets, drops, post, snaps, clients, send, closed,
                   fanout, held, dispatched>>

\* a writePump that returns without closing the connection
StaysOpen(c) == FALSE

\* c.conn.Close() at the end of writePump: the ReadMessage of readPump fails
\* from then on
ClosedByWriter(c) == c \notin DOMAIN send

\* the range over a closed and drained c.send ends, or a write fails on the
\* connection readPump has closed: writePump closes the connection and
\* returns
WritePumpExit(c) ==
    /\ c \in closed
    /\ send[c] = <<>> \/ c \notin DOMAIN sessions
    /\ send' = Delete(send, c)
    /\ closed' = closed \ {c}
    /\ UNCHANGED <<players, sweets, commands, EventBroadcast, StateBroadcast, tick, mu,
                   pc, cmds, entries, next, occupied, pre, accepted, removed,
                   gameOvers, nSweets, drops, post, snaps, clients, fanout, held,
                   sessions, dispatched>>

\* ---------------------------------------------------------------- readPump
\* what a peer can send: text that is JSON or not, with a type, a dir and
\* possibly x and y
Message(json, type, dir, x, y) ==
    [json |-> json, type |-> type, dir |-> dir, x |-> x, y |-> y]

JoinMessages == {Message(TRUE, "join", "", 0, 0)}

\* moves along a row
DirMessages == {Message(TRUE, "move", d, 0, 0) : d \in {"left", "right"}}

AbsMessages == {Message(TRUE, "move", "", t[1], t[2]) : t \in {<<GridW - 1, GridH - 1>>}}

OtherMessages == {Message(FALSE, "", "", 0, 0), Message(TRUE, "ping", "", 0, 0)}

\* a test of c.playerID that lets every move through
NotJoinedNever(id) == FALSE

\* c.playerID == ""
NotJoined(id) == id = 0

\* the reply readPump writes on the connection, "" when it writes none
Answered(s, m, r) == [s EXCEPT !.last = <<m>>, !.reply = r]

\* one iteration of the loop of readPump on a message m: text that is not
\* JSON is logged and skipped; a join calls AddPlayer and answers join_ack,
\* or an error when AddPlayer returns nil; a move of a client without a
\* player is answered with an error, any other move becomes a Command with
\* the dir of the message and goes to PushCommand; other types are ignored.
\* The environment keeps at most limit players and batch commands.
readPump(c, m, limit, batch) ==
    /\ c \in DOMAIN sessions
    /\ sessions[c].at = "read"
    /\ LET s == sessions[c]
       IN IF ~m.json
          THEN /\ sessions' = [sessions EXCEPT ![c] = Answered(s, m, "")]
               /\ UNCHANGED <<players, commands>>
          ELSE IF m.type = "join"
          THEN /\ mu = "free"
               /\ Cardinality(DOMAIN players) < limit
               /\ IF \E cell \in Cells : Free(players, cell)
                  THEN \E cell \in Cells :
                         /\ Free(players, cell)
                         /\ players' = Put(players, NewID(players),
                                           [X |-> cell[1], Y |-> cell[2], Score |-> 0])
                         /\ sessions' = [sessions EXCEPT ![c] =
                                [Answered(s, m, "join_ack")
                                    EXCEPT !.playerID = NewID(players)]]
                  ELSE /\ players' = players
                       /\ sessions' = [sessions EXCEPT ![c] =
                                          Answered(s, m, "unable to add player")]
               /\ UNCHANGED commands
          ELSE IF m.type = "move"
          THEN IF NotJoined(s.playerID)
               THEN /\ sessions' = [sessions EXCEPT ![c] = Answered(s, m, "not joined")]
                    /\ UNCHANGED <<players, commands>>
               ELSE /\ Len(cmds) + Len(commands) < batch
                    /\ commands' = TrySend(commands, QueueCap,
                                           [PlayerID |-> s.playerID, Type |-> "move",
                                            Dir |-> m.dir, X |-> 0, Y |-> 0])
                    /\ sessions' = [sessions EXCEPT ![c] = Answered(s, m, "")]
                    /\ UNCHANGED players
          ELSE /\ sessions' = [sessions EXCEPT ![c] = Answered(s, m, "")]
               /\ UNCHANGED <<players, commands>>
    /\ UNCHANGED <<sweets, EventBroadcast, StateBroadcast, tick, mu, pc, cmds, entries,
                   next, occupied, pre, accepted, removed, gameOvers, nSweets, drops,
                   post, snaps, clients, send, closed, fanout, held, dispatched>>

\* ReadMessage fails and the loop breaks: the deferred function removes the
\* player of the client, if it has one, and goes on to h.unregister <- c
readPumpEnd(c) ==
    /\ c \in DOMAIN sessions
    /\ sessions[c].at = "read"
    /\ IF sessions[c].playerID # 0
       THEN /\ mu = "free"
            /\ players' = Delete(players, sessions[c].playerID)
       ELSE players' = players
    /\ sessions' = [sessions EXCEPT ![c].at = "unreg"]
    /\ UNCHANGED <<sweets, commands, EventBroadcast, StateBroadcast, tick, mu, pc,
                   cmds, entries, next, occupied, pre, accepted, removed, gameOvers,
                   nSweets, drops, post, snaps, clients, send, closed, fanout, held,
                   dispatched>>

\* the peer closes the connection, or the network fails
Leave(c) == readPumpEnd(c)

\* the peer is still there, and ReadMessage fails because writePump has
\* closed the connection
ReadError(c) == ClosedByWriter(c) /\ readPumpEnd(c)

\* ---------------------------------------------------------------- specification
\* the sessions of the joined players, each sending moves for its own player
Produce(inputs, limit) ==
    /\ \E id \in DOMAIN players : \E c \in inputs : PushCommand(Command(id, c), limit)
    /\ UNCHANGED drops

\* the same sessions, the history counting the commands that are dropped
ProduceCounted(inputs, limit) ==
    /\ Len(commands) = QueueCap => drops < MaxDrops
    /\ \E id \in DOMAIN players : \E c \in inputs : PushCommand(Command(id, c), limit)
    /\ drops' = IF Len(commands) < QueueCap THEN drops ELSE drops + 1

Next ==
    \/ AddPlayer
    \/ \E id \in PlayerIDs : RemovePlayer(id)
    \/ Produce(MoveInputs, MaxBatch)
    \/ TickStart
    \/ DrainRecv
    \/ DrainEmpty
    \/ ResolveStep
    \/ Unlock
    \/ broadcastState
    \/ RecvState
    \/ RecvEvent

Spec == Init /\ [][Next]_vars

\* the same program under bursts of directional moves
NextBurst ==
    \/ AddPlayer
    \/ \E id \in PlayerIDs : RemovePlayer(id)
    \/ Produce(BurstInputs, BurstBatch)
    \/ TickStart
    \/ DrainRecv
    \/ DrainEmpty
    \/ ResolveStep
    \/ Unlock
    \/ broadcastState
    \/ RecvState
    \/ RecvEvent

SpecBurst == Init /\ [][NextBurst]_vars

\* the same program under every shape of command, one at a time
NextApi ==
    \/ AddPlayer
    \/ \E id \in PlayerIDs : RemovePlayer(id)
    \/ Produce(ApiInputs, ApiBatch)
    \/ TickStart
    \/ DrainRecv
    \/ DrainEmpty
    \/ ResolveStep
    \/ Unlock
    \/ broadcastState
    \/ RecvState
    \/ RecvEvent

SpecApi == Init /\ [][NextApi]_vars

\* the same program with several sweets, under single moves
InitSweets == InitWith(ManySweets)

NextSweets ==
    \/ AddPlayer
    \/ \E id \in PlayerIDs : RemovePlayer(id)
    \/ Produce(MoveInputs, SweetsBatch)
    \/ TickStart
    \/ DrainRecv
    \/ DrainEmpty
    \/ ResolveStep
    \/ Unlock
    \/ broadcastState
    \/ RecvState
    \/ RecvEvent

SpecSweets == InitSweets /\ [][NextSweets]_vars

\* the same program, the dropped commands counted
NextQueue ==
    \/ AddPlayer
    \/ \E id \in PlayerIDs : RemovePlayer(id)
    \/ ProduceCounted(BurstInputs, BurstBatch)
    \/ TickStart
    \/ DrainRecv
    \/ DrainEmpty
    \/ ResolveStep
    \/ Unlock
    \/ broadcastState
    \/ RecvState
    \/ RecvEvent

SpecQueue == Init /\ [][NextQueue]_vars

\* the same program with sessions that join and leave but never move
NextIdle ==
    \/ AddPlayer
    \/ \E id \in PlayerIDs : RemovePlayer(id)
    \/ TickStart
    \/ DrainEmpty
    \/ broadcastState
    \/ RecvState

SpecIdle == Init /\ [][NextIdle]_vars

\* the same program with several sweets, sessions that stay, and nobody
\* receiving from the two broadcast channels
NextFull ==
    \/ AddPlayer
    \/ Produce(MoveInputs, SweetsBatch)
    \/ Tick
    \/ DrainRecv
    \/ DrainEmpty
    \/ ResolveStep
    \/ Unlock
    \/ broadcastState

SpecFull == InitSweets /\ [][NextFull]_vars

\* the hub and its sessions under the snapshots of idle ticks
NextHub ==
    \/ TickStart
    \/ DrainEmpty
    \/ broadcastState
    \/ TakeState
    \/ \E k \in Forwarders : HubBroadcast(k)
    \/ \E c \in ClientIDs : Register(c)
    \/ \E c \in ClientIDs : Leave(c)
    \/ \E c \in ClientIDs : Unregister(c)
    \/ FanoutStep
    \/ FanoutDone
    \/ \E c \in ClientIDs : WritePump(c)
    \/ \E c \in ClientIDs : WritePumpExit(c)

SpecHub == Init /\ [][NextHub]_vars

\* the game under single moves, its two broadcast channels forwarded to the
\* hub, and sessions that stay
NextFanout ==
    \/ AddPlayer
    \/ Produce(BurstInputs, SweetsBatch)
    \/ TickStart
    \/ DrainRecv
    \/ DrainEmpty
    \/ ResolveStep
    \/ Unlock
    \/ broadcastState
    \/ TakeState
    \/ TakeEvent
    \/ \E k \in Forwarders : HubBroadcast(k)
    \/ \E c \in ClientIDs : Register(c)
    \/ FanoutStepCap(WideCap)
    \/ FanoutDone
    \/ \E c \in ClientIDs : WritePump(c)

SpecFanout == Init /\ [][NextFanout]_vars

\* what the peers of the sessions send
SessionMessages == JoinMessages \cup DirMessages \cup AbsMessages \cup OtherMessages

\* the game and sessions that stay, join and send one message at a time,
\* the forwarders receiving from the two broadcast channels
NextSession ==
    \/ \E c \in ClientIDs : Register(c)
    \/ \E c \in ClientIDs : \E m \in SessionMessages : readPump(c, m, MaxPlayers, ApiBatch)
    \/ TickStart
    \/ DrainRecv
    \/ DrainEmpty
    \/ ResolveStep
    \/ Unlock
    \/ broadcastState
    \/ RecvState
    \/ RecvEvent

SpecSession == Init /\ [][NextSession]_vars

\* AddPlayer can be called until it finds the grid full
GridFull == Cardinality(Cells) + 1

\* sessions that come, join any number of times and go, while no tick fires
NextJoin ==
    \/ \E c \in ClientIDs : Register(c)
    \/ \E c \in ClientIDs : \E m \in JoinMessages : readPump(c, m, GridFull, ApiBatch)
    \/ \E c \in ClientIDs : Leave(c)
    \/ \E c \in ClientIDs : Unregister(c)
    \/ \E c \in ClientIDs : WritePumpExit(c)

SpecJoin == Init /\ [][NextJoin]_vars

\* the game and sessions that come, join once, send moves and end, before
\* the hub has taken their unregistration
NextOwner ==
    \/ \E c \in ClientIDs : Register(c)
    \/ \E c \in ClientIDs : \E m \in JoinMessages :
           /\ c \in DOMAIN sessions
           /\ NotJoined(sessions[c].playerID)
           /\ readPump(c, m, MaxPlayers, ApiBatch)
    \/ \E c \in ClientIDs : \E m \in DirMessages : readPump(c, m, MaxPlayers, ApiBatch)
    \/ \E c \in ClientIDs : Leave(c)
    \/ TickStart
    \/ DrainRecv
    \/ DrainEmpty
    \/ ResolveStep
    \/ Unlock
    \/ broadcastState
    \/ RecvState
    \/ RecvEvent

SpecOwner == Init /\ [][NextOwner]_vars

\* the hub and sessions that stay and join, with a writePump whose
\* WriteMessage takes time, under the snapshots of idle ticks
NextWrite ==
    \/ TickStart
    \/ DrainEmpty
    \/ broadcastState
    \/ TakeState
    \/ \E k \in Forwarders : HubBroadcast(k)
    \/ \E c \in ClientIDs : Register(c)
    \/ \E c \in ClientIDs : \E m \in JoinMessages : readPump(c, m, MaxPlayers, ApiBatch)
    \/ FanoutStep
    \/ FanoutDone
    \/ \E c \in ClientIDs : WritePumpBegin(c)
    \/ \E c \in ClientIDs : WritePumpEnd(c)

SpecWrite == Init /\ [][NextWrite]_vars

\* the hub, its forwarder and sessions that come and go, whose registration
\* waits for the hub, under the snapshots of idle ticks
NextLive ==
    \/ TickStart
    \/ DrainEmpty
    \/ broadcastState
    \/ TakeState
    \/ \E k \in Forwarders : HubBroadcast(k)
    \/ \E c \in ClientIDs : Connect(c)
    \/ \E c \in ClientIDs : HubRegister(c)
    \/ \E c \in ClientIDs : Leave(c)
    \/ \E c \in ClientIDs : Unregister(c)
    \/ FanoutStep
    \/ FanoutDone
    \/ \E c \in ClientIDs : WritePump(c)
    \/ \E c \in ClientIDs : WritePumpExit(c)

\* Hub.run is scheduled fairly and its select takes every case that is ready
\* again and again; the sessions, their peers and the game are not bound to
\* make progress
SpecLive ==
    /\ Init
    /\ [][NextLive]_vars
    /\ WF_vars(FanoutStep)
    /\ WF_vars(FanoutDone)
    /\ \A c \in ClientIDs : SF_vars(HubRegister(c)) /\ SF_vars(Unregister(c))
    /\ \A k \in Forwarders : SF_vars(HubBroadcast(k))

\* the hub and sessions that join, whose peers never close, under the
\* snapshots of idle ticks
NextKick ==
    \/ TickStart
    \/ DrainEmpty
    \/ broadcastState
    \/ TakeState
    \/ \E k \in Forwarders : HubBroadcast(k)
    \/ \E c \in ClientIDs : Register(c)
    \/ \E c \in ClientIDs : \E m \in JoinMessages : readPump(c, m, MaxPlayers, ApiBatch)
    \/ FanoutStep
    \/ FanoutDone
    \/ \E c \in ClientIDs : WritePump(c)
    \/ \E c \in ClientIDs : WritePumpExit(c)
    \/ \E c \in ClientIDs : ReadError(c)
    \/ \E c \in ClientIDs : Unregister(c)

\* writePump and readPump of every session are scheduled fairly
SpecKick ==
    /\ Init
    /\ [][NextKick]_vars
    /\ \A c \in ClientIDs :
           /\ WF_vars(WritePump(c))
           /\ WF_vars(WritePumpExit(c))
           /\ WF_vars(ReadError(c))

\* the round variant under bursts of directional moves, with players that
\* stay
NextCap ==
    \/ AddPlayer
    \/ Produce(BurstInputs, CapBatch)
    \/ TickStart
    \/ DrainRecv
    \/ DrainEmptyCap
    \/ ResolveCapStep
    \/ Unlock
    \/ broadcastStateRound
    \/ GameOver
    \/ RestartAfterSleep
    \/ RestartRecv
    \/ RestartDone
    \/ RecvState
    \/ RecvEvent

SpecCap == Init /\ [][NextCap]_vars

\* the round variant under single moves
NextRound ==
    \/ AddPlayer
    \/ \E id \in PlayerIDs : RemovePlayer(id)
    \/ Produce(MoveInputs, RoundBatch)
    \/ TickStart
    \/ DrainRecv
    \/ DrainEmptyCap
    \/ ResolveCapStep
    \/ Unlock
    \/ broadcastStateRound
    \/ GameOver
    \/ RestartAfterSleep
    \/ RestartRecv
    \/ RestartDone
    \/ RecvState
    \/ RecvEvent

SpecRound == Init /\ [][NextRound]_vars

\* ================================================================ properties
\* the arrival indices in cmds of the commands of player id, and the last one
Own(id) == {k \in 1 .. Len(cmds) : cmds[k].PlayerID = id}

MaxOf(S) == CHOOSE m \in S : \A k \in S : k <= m

LastCmd(id) == cmds[MaxOf(Own(id))]

\* the step is the iteration of the resolver loop for a live player id
Resolves(id) ==
    /\ pc = "resolve"
    /\ next' = next + 1
    /\ entries[next].id = id
    /\ id \in DOMAIN players

\* a player other than id stands on the cell
OtherAt(id, cell) == \E q \in DOMAIN players \ {id} : Pos(players[q]) = cell

NoOverlap ==
    \A a, b \in DOMAIN players : a # b => Pos(players[a]) # Pos(players[b])

\* C1: outside the resolver loop (so whenever a tick's resolution has
\* completed), no two distinct live players stand on the same cell.
C1_NoSharedCell == pc # "resolve" => NoOverlap

\* a resolution has completed with two live players, one of which moved
\* and the other had its move refused
C1_Witness ==
    /\ pc = "unlock"
    /\ Cardinality(DOMAIN players) = 2
    /\ \E a \in DOMAIN accepted : Pos(players[a]) # Pos(pre.players[a])
    /\ \E b \in DOMAIN players \ DOMAIN accepted : Own(b) # {}

\* C2: a successful AddPlayer returns an id no live player has, the number
\* of live players grows by one and every player that was live is unaltered.
C2_FreshIdentity ==
    [][(AddPlayer /\ players' # players)
       => /\ NewID(players) \notin DOMAIN players
          /\ Cardinality(DOMAIN players') = Cardinality(DOMAIN players) + 1
          /\ \A q \in DOMAIN players : players'[q] = players[q]]_vars

\* the two movers a then b of a tick with exactly one command each, both
\* aiming at the cell t that nobody stood on when the resolution started
SameTarget(a, b, t) ==
    /\ Len(cmds) = 2
    /\ a # b
    /\ cmds[1].PlayerID = a
    /\ cmds[2].PlayerID = b
    /\ Dest(pre.players[a], cmds[1]) = t
    /\ Dest(pre.players[b], cmds[2]) = t
    /\ Free(pre.players, t)

\* C3: of two players with one move each for the same free cell, the one
\* enqueued first is on the cell after the resolution, one point richer if a
\* sweet was there, and the other one is where and what it was.
C3_FirstEnqueuedWins ==
    pc = "unlock" =>
        \A a, b \in DOMAIN pre.players : \A t \in Cells :
            SameTarget(a, b, t) =>
                /\ Pos(players[a]) = t
                /\ players[a].Score = pre.players[a].Score
                       + (IF SweetsAt(pre.sweets, t) # {} THEN 1 ELSE 0)
                /\ players[b] = pre.players[b]

C3_Witness ==
    /\ pc = "unlock"
    /\ \E a, b \in DOMAIN pre.players : \E t \in Cells :
           /\ SameTarget(a, b, t)
           /\ a > b
           /\ SweetsAt(pre.sweets, t) # {}
           /\ Pos(players[a]) = t
           /\ players[a].Score = 1
           /\ players[b].Score = 0

\* C4: in a tick every player has at most one accepted move, a player
\* without a command is untouched, and a player with commands is either
\* where it was or where its last command of the tick leads from there.
C4_OnlyLastCommandApplies ==
    pc \in {"resolve", "unlock"} =>
        /\ \A i, j \in 1 .. Len(entries) : i # j => entries[i].id # entries[j].id
        /\ \A id \in DOMAIN accepted : accepted[id] <= 1
        /\ \A id \in DOMAIN players :
               IF Own(id) = {}
               THEN players[id] = pre.players[id]
               ELSE Pos(players[id]) \in {Pos(pre.players[id]),
                                          Dest(pre.players[id], LastCmd(id))}

\* a player submitted more commands than the queue holds, the last one
\* differing from the first, and moved as the last one says
C4_Witness ==
    /\ pc = "unlock"
    /\ \E id \in DOMAIN accepted :
           /\ Cardinality(Own(id)) > QueueCap
           /\ Dest(pre.players[id], cmds[1]) # Dest(pre.players[id], LastCmd(id))
           /\ cmds[1].PlayerID = id
           /\ Pos(players[id]) = Dest(pre.players[id], LastCmd(id))
           /\ Pos(players[id]) # Pos(pre.players[id])

\* a enqueues, b enqueues, a enqueues again; the surviving commands aim at
\* the cell t that nobody stood on when the resolution started
LateRepeat(a, b, t) ==
    /\ Len(cmds) = 3
    /\ a # b
    /\ cmds[1].PlayerID = a
    /\ cmds[2].PlayerID = b
    /\ cmds[3].PlayerID = a
    /\ Dest(pre.players[a], cmds[3]) = t
    /\ Dest(pre.players[b], cmds[2]) = t
    /\ Free(pre.players, t)

\* C5: the resolver walks the players in ascending order of the arrival
\* index of their last command; after a, b, a with both surviving commands
\* for the same free cell, b is on the cell and a is where and what it was.
C5_OrderByLastArrival ==
    pc \in {"resolve", "unlock"} =>
        /\ \A i \in 1 .. Len(entries) : entries[i].idx = MaxOf(Own(entries[i].id))
        /\ \A i, j \in 1 .. Len(entries) : i < j => entries[i].idx < entries[j].idx
        /\ pc = "unlock" =>
               \A a, b \in DOMAIN pre.players : \A t \in Cells :
                   LateRepeat(a, b, t) =>
                       /\ Pos(players[b]) = t
                       /\ players[a] = pre.players[a]

C5_Witness ==
    /\ pc = "unlock"
    /\ \E a, b \in DOMAIN pre.players : \E t \in Cells :
           /\ LateRepeat(a, b, t)
           /\ a < b
           /\ Pos(players[b]) = t
           /\ Pos(players[a]) # t

\* C6: when the resolver reaches a mover whose destination holds another
\* player, the step changes no player, removes no sweet and emits no event.
C6_OccupiedDestinationRejected ==
    [][\A id \in PlayerIDs :
           (Resolves(id) /\ OtherAt(id, Dest(players[id], cmds[entries[next].idx])))
           => /\ players' = players
              /\ sweets' = sweets
              /\ EventBroadcast' = EventBroadcast]_vars

\* the resolver has just refused the move of a player that faces another one
C6_Witness ==
    /\ pc \in {"resolve", "unlock"}
    /\ next > 1
    /\ LET id == entries[next - 1].id
       IN /\ id \in DOMAIN players
          /\ id \notin DOMAIN accepted
          /\ Dest(players[id], cmds[entries[next - 1].idx]) # Pos(players[id])
          /\ OtherAt(id, Dest(players[id], cmds[entries[next - 1].idx]))
          /\ players = pre.players

\* C7: an accepted move onto a cell with a sweet gives the mover one point,
\* removes exactly one sweet and that one was on the cell, appends one
\* collected event with the mover, that sweet and the tick unless the event
\* channel is full, and changes no other player's score.
C7_PickupScoresOnce ==
    [][\A id \in PlayerIDs :
           LET cell == Dest(players[id], cmds[entries[next].idx])
           IN (Resolves(id) /\ ~OtherAt(id, cell) /\ SweetsAt(sweets, cell) # {})
              => /\ players'[id].Score = players[id].Score + 1
                 /\ Pos(players'[id]) = cell
                 /\ \A q \in DOMAIN players \ {id} : players'[q] = players[q]
                 /\ \E sid \in SweetsAt(sweets, cell) :
                        /\ sweets' = [j \in DOMAIN sweets \ {sid} |-> sweets[j]]
                        /\ EventBroadcast' =
                               IF Len(EventBroadcast) < EventCap
                               THEN Append(EventBroadcast,
                                           [type |-> "event", event |-> "collected",
                                            player |-> id, sweet |-> sid, tick |-> tick])
                               ELSE EventBroadcast]_vars

\* a second-tick pickup of one of two sweets lying on the same cell, its
\* event queued
C7_Witness ==
    /\ pc = "unlock"
    /\ tick = 2
    /\ \E id \in DOMAIN accepted : \E sid \in DOMAIN pre.sweets :
           /\ SweetsAt(pre.sweets, Pos(players[id])) = {1, 2}
           /\ DOMAIN sweets = {1, 2} \ {sid}
           /\ players[id].Score = pre.players[id].Score + 1
           /\ EventBroadcast = <<[type |-> "event", event |-> "collected",
                                  player |-> id, sweet |-> sid, tick |-> 2]>>

\* C8: every live player is inside the grid.
C8_InsideGrid ==
    \A id \in DOMAIN players :
        /\ 0 <= players[id].X /\ players[id].X < GridW
        /\ 0 <= players[id].Y /\ players[id].Y < GridH

\* the resolver has just accepted an absolute move whose target lies below
\* the grid in x and beyond it in y
C8_Witness ==
    /\ pc \in {"resolve", "unlock"}
    /\ next > 1
    /\ LET id == entries[next - 1].id
           c == cmds[entries[next - 1].idx]
       IN /\ id \in DOMAIN accepted
          /\ c.Type = "move_abs"
          /\ c.X < 0
          /\ c.Y >= GridH
          /\ Pos(pre.players[id]) # <<0, GridH - 1>>
          /\ Pos(players[id]) = <<0, GridH - 1>>

\* C9: once a tick has ended with no sweet left, exactly one game_over event
\* has been emitted.
C9_GameOverOnce ==
    (pc = "wait" /\ tick > 0 /\ DOMAIN sweets = {}) => gameOvers = 1

\* C10: from one state to the next the number of live sweets never grows, no
\* sweet id appears that was not live, and no removed id is live.
C10_SweetsOnlyGo ==
    [][/\ Cardinality(DOMAIN sweets') <= Cardinality(DOMAIN sweets)
       /\ DOMAIN sweets' \subseteq DOMAIN sweets
       /\ removed' \cap DOMAIN sweets' = {}
       /\ removed \subseteq removed']_vars

\* both sweets have been removed, one after the other
C10_Witness ==
    /\ removed = {1, 2}
    /\ DOMAIN sweets = {}
    /\ \E id \in DOMAIN players : players[id].Score = 2

\* C11: while a Restart holds the world (the sweets are regenerated and
\* nobody else can touch them), the number of live sweets is the nSweets the
\* game was created with.
C11_RestartRestoresConfiguredCount ==
    pc = "flush" => Cardinality(DOMAIN sweets) = nSweets

world == <<players, sweets, EventBroadcast, StateBroadcast, tick, mu, pc, cmds,
           entries, next, occupied>>

\* C13: the queue never holds more than its capacity; a step that makes the
\* queue longer found it below capacity and appended one command at its
\* tail; a step that drops a command found the queue full and left it as it
\* was; both leave the world unchanged.
C13_PushAppendsOrDrops ==
    [][/\ Len(commands') <= QueueCap
       /\ Len(commands') > Len(commands)
              => /\ Len(commands) < QueueCap
                 /\ \E id \in PlayerIDs : \E c \in BurstInputs :
                        commands' = Append(commands, Command(id, c))
                 /\ drops' = drops
                 /\ UNCHANGED world
       /\ drops' # drops
              => /\ Len(commands) = QueueCap
                 /\ commands' = commands
                 /\ UNCHANGED world]_vars

\* a command has been dropped on a full queue, which still holds the
\* command that filled it
C13_Witness ==
    /\ drops = 1
    /\ Len(commands) = QueueCap
    /\ QueueCap > 0

\* C14: the commands in flight are the batch the current tick has drained
\* followed by the queue.  A step either leaves that sequence as it is (a
\* receive moves the head of the queue to the tail of the batch), appends one
\* command to it (a submission), or, at the end of the resolution, consumes
\* the whole batch and leaves the queue alone; the drain ends only on an
\* empty queue and no tick starts with a batch.
C14_DrainedOnceInOrder ==
    [][/\ \/ cmds' \o commands' = cmds \o commands
          \/ \E id \in PlayerIDs : \E c \in BurstInputs :
                 /\ cmds' = cmds
                 /\ commands' = Append(commands, Command(id, c))
          \/ /\ pc = "unlock"
             /\ cmds' = <<>>
             /\ commands' = commands
       /\ cmds' # cmds => (pc = "drain" /\ Len(cmds') = Len(cmds) + 1) \/ pc = "unlock"
       /\ (pc = "drain" /\ pc' # "drain") => commands = <<>>
       /\ pc' \in {"wait", "drain"} /\ pc # "drain" => cmds' = <<>>]_vars

\* a tick has drained, in their order, two commands that waited in the queue
\* and a third one submitted while it was draining
C14_Witness ==
    /\ pc = "resolve"
    /\ Len(cmds) = 3
    /\ Len(cmds) > QueueCap
    /\ cmds[1] # cmds[2]

\* the snapshot a step has put at the tail of StateBroadcast
Sent == StateBroadcast'[Len(StateBroadcast')]

\* C15: the number of snapshot attempts is the number of ticks whose loop
\* body has ended; an attempt is made by the tick goroutine after the
\* resolution (lock released, batch consumed), and what it sends, unless the
\* channel is full, is stamped with the tick and lists every live player
\* and every live sweet.
C15_OneSnapshotPerTick ==
    [][/\ snaps' = IF pc' = "wait" THEN tick' ELSE tick' - 1
       /\ snaps' # snaps
              => /\ snaps' = snaps + 1
                 /\ pc = "bcast" /\ mu = "free" /\ cmds = <<>>
                 /\ IF Len(StateBroadcast) < StateCap
                    THEN /\ Len(StateBroadcast') = Len(StateBroadcast) + 1
                         /\ Sent.Type = "state"
                         /\ Sent.Tick = tick
                         /\ DOMAIN Sent.Players = DOMAIN players
                         /\ DOMAIN Sent.Sweets = DOMAIN sweets
                    ELSE StateBroadcast' = StateBroadcast]_vars

\* the second tick has ended; its snapshot is queued although the tick
\* found no command and the world is as the first tick left it
C15_Witness ==
    /\ pc = "wait"
    /\ tick = 2
    /\ snaps = 2
    /\ cmds = <<>>
    /\ StateBroadcast = <<[Type |-> "state", Tick |-> 2, Players |-> players,
                           Sweets |-> sweets]>>
    /\ DOMAIN players # {}
    /\ DOMAIN sweets # {}
    /\ removed = {}

\* C16: the snapshot queued for a tick holds the players and the sweets
\* the world held when that tick's applyCommands returned.
C16_SnapshotIsEndOfResolution ==
    [][(snaps' # snaps /\ Len(StateBroadcast) < StateCap)
       => /\ Sent.Players = post.players
          /\ Sent.Sweets = post.sweets]_vars

\* C17: with a queue that is empty at every tick, a step of the tick
\* goroutine changes no player, no sweet and emits no event; the step that
\* starts a tick adds one to the tick counter and no other step changes it.
C17_IdleTicksChangeNothing ==
    [][/\ commands' = <<>>
       /\ pc' # pc
              => /\ players' = players
                 /\ sweets' = sweets
                 /\ EventBroadcast' = EventBroadcast
       /\ tick' = IF pc = "wait" /\ pc' # "wait" THEN tick + 1 ELSE tick]_vars

\* two ticks have gone by over two players and a sweet, nobody has scored
C17_Witness ==
    /\ pc = "wait"
    /\ tick = 2
    /\ Cardinality(DOMAIN players) = 2
    /\ DOMAIN sweets = 1 .. nSweets
    /\ nSweets > 0
    /\ \A id \in DOMAIN players : players[id].Score = 0

\* C18: the step that starts a tick adds exactly one to the tick counter and
\* no other step, a Restart included, changes it; the k-th snapshot carries
\* the tick number k, which is larger than that of every snapshot still
\* queued.
C18_TickMonotonic ==
    [][/\ tick' = IF pc = "wait" /\ pc' = "drain" THEN tick + 1 ELSE tick
       /\ (snaps' # snaps /\ Len(StateBroadcast) < StateCap)
              => /\ Sent.Tick = snaps + 1
                 /\ \A i \in 1 .. Len(StateBroadcast) :
                        StateBroadcast[i].Tick < Sent.Tick]_vars

\* a game created without sweets has been restarted after its first tick
\* and the snapshot of its second tick is queued
C18_Witness ==
    /\ nSweets = 0
    /\ DOMAIN sweets # {}
    /\ tick = 2
    /\ snaps = 2
    /\ Len(StateBroadcast) = 1
    /\ StateBroadcast[1].Tick = 2

\* C19: neither channel ever holds more than its capacity; a snapshot
\* attempt on a full StateBroadcast leaves the channel as it is and ends the
\* loop body; a pickup on a full EventBroadcast leaves the channel as it is,
\* still scores and removes the sweet, and the resolver goes on; and the next
\* step of the tick goroutine is enabled whatever the channels hold.
C19_FullChannelsDropNotBlock ==
    [][/\ Len(StateBroadcast') <= StateCap
       /\ Len(EventBroadcast') <= EventCap
       /\ (snaps' # snaps /\ Len(StateBroadcast) = StateCap)
              => /\ StateBroadcast' = StateBroadcast
                 /\ pc' = "wait"
       /\ (removed' # removed /\ Len(EventBroadcast) = EventCap)
              => /\ EventBroadcast' = EventBroadcast
                 /\ Cardinality(DOMAIN sweets') = Cardinality(DOMAIN sweets) - 1
                 /\ next' = next + 1
                 /\ pc' \in {"resolve", "unlock"}
       /\ pc = "bcast" => ENABLED broadcastState
       /\ pc = "resolve" => ENABLED ResolveStep
       /\ (pc = "wait" /\ tick < MaxTick) => ENABLED Tick]_vars

\* nobody has received anything: the snapshot of the first tick and an event
\* of the first tick fill the channels, a later event and the snapshot of the
\* second tick were dropped, and the second tick has still moved a player
C19_Witness ==
    /\ pc = "wait"
    /\ tick = 2
    /\ snaps = 2
    /\ Len(StateBroadcast) = StateCap
    /\ StateBroadcast[1].Tick = 1
    /\ Len(EventBroadcast) = EventCap
    /\ EventBroadcast[1].tick = 1
    /\ Cardinality(removed) > EventCap
    /\ \E id \in DOMAIN players \cap DOMAIN StateBroadcast[1].Players :
           /\ Pos(players[id]) # Pos(StateBroadcast[1].Players[id])
           /\ players[id].Score = StateBroadcast[1].Players[id].Score + 1

\* the sessions a step of the range loop has visited
Visited == {c \in fanout.todo : c \notin fanout'.todo}

\* C20: a fan-out starts with every registered session to visit and ends
\* when none is left; each iteration visits one session: a session with a
\* full buffer is deleted from the registered set and its channel closed, a
\* session with room gets the message at the tail of its buffer, and no
\* other session is touched; whatever the buffers hold, the hub has a next
\* step.
C20_FanoutDropsSlowSession ==
    [][/\ (fanout.msg = <<>> /\ fanout'.msg # <<>>) => fanout'.todo = clients
       /\ (fanout.msg # <<>> /\ fanout'.msg = <<>>) => fanout.todo = {}
       /\ (fanout.msg # <<>> /\ fanout' # fanout /\ fanout'.msg # <<>>)
              => /\ Cardinality(Visited) = 1
                 /\ fanout'.todo = fanout.todo \ Visited
                 /\ \A c \in Visited :
                        IF Len(send[c]) >= SendCap
                        THEN /\ c \notin clients'
                             /\ c \in closed'
                             /\ send'[c] = send[c]
                        ELSE /\ c \in clients'
                             /\ c \notin closed'
                             /\ send'[c] = Append(send[c], fanout.msg[1])
                 /\ \A d \in DOMAIN send \ Visited :
                        /\ send'[d] = send[d]
                        /\ d \in clients' <=> d \in clients
                        /\ d \in closed' <=> d \in closed
       /\ fanout.msg # <<>> => ENABLED (FanoutStep \/ FanoutDone)]_vars

\* a fan-out has first disconnected a session whose buffer was full of an
\* older snapshot and then delivered the message to the other session
C20_Witness ==
    /\ fanout.msg # <<>>
    /\ fanout.todo = {}
    /\ Len(fanout.done) = 2
    /\ LET c == fanout.done[1]
           d == fanout.done[2]
       IN /\ c \notin clients
          /\ c \in closed
          /\ Len(send[c]) = SendCap
          /\ send[c][1].Tick < fanout.msg[1].Tick
          /\ d \in clients
          /\ send[d] = fanout.msg

\* b is a run of consecutive messages of d
IsSegment(b, d) ==
    \E i \in 0 .. Len(d) - Len(b) : \A j \in 1 .. Len(b) : b[j] = d[i + j]

\* b is the end of d
IsSuffix(b, d) ==
    /\ Len(b) <= Len(d)
    /\ \A j \in 1 .. Len(b) : b[j] = d[Len(d) - Len(b) + j]

\* C21: when the range loop visits a registered session whose buffer has
\* room, the message the hub took is put at the tail of that buffer; and at
\* any time the buffer of a session is a run of consecutive messages in the
\* order the hub took them, which for a registered session that the current
\* fan-out has passed, and whose writePump has not emptied the buffer, ends
\* with the last message the hub took.
C21_EveryMessageInDispatchOrder ==
    /\ [][\A c \in Visited :
             Len(send[c]) < WideCap
             => /\ c \in clients'
                /\ send'[c] = Append(send[c], dispatched[Len(dispatched)])]_vars
    /\ [](\A c \in DOMAIN send :
             /\ IsSegment(send[c], dispatched)
             /\ (c \in clients /\ c \notin fanout.todo /\ send[c] # <<>>)
                    => IsSuffix(send[c], dispatched))

\* a session holds a collected event and, behind it, the snapshot of the
\* same tick, the two messages the hub took last, while the other session,
\* whose writePump has kept up, holds that snapshot only
C21_Witness ==
    /\ fanout.msg # <<>>
    /\ fanout.todo = {}
    /\ Len(dispatched) >= 3
    /\ \E c \in clients : \E d \in clients :
           /\ Len(send[c]) = 2
           /\ "event" \in DOMAIN send[c][1]
           /\ "Tick" \in DOMAIN send[c][2]
           /\ send[c][2].Tick = send[c][1].tick
           /\ send[c][2] = fanout.msg[1]
           /\ send[d] = fanout.msg

\* the sessions whose readPump breaks out of its loop in this step, and
\* those the hub unregisters in this step
Ending == {c \in DOMAIN sessions : sessions[c].at = "read" /\ c \in DOMAIN sessions'
                                      /\ sessions'[c].at = "unreg"}

Unregistered == {c \in DOMAIN sessions : c \notin DOMAIN sessions'}

\* C22: when the readPump of a session ends, the player of that session is
\* no longer in the world; when the hub then takes its unregister request,
\* the session is no longer registered and the world is unchanged; in both
\* steps every other session keeps its record and its registration, and the
\* player of every other session stays in the world as it was.
C22_SessionEndTouchesNothingElse ==
    [][\A c \in Ending \cup Unregistered :
           /\ c \in Ending /\ sessions[c].playerID # 0
                  => sessions[c].playerID \notin DOMAIN players'
           /\ c \in Unregistered => (c \notin clients' /\ players' = players)
           /\ \A d \in DOMAIN sessions \ {c} :
                  /\ d \in DOMAIN sessions' /\ sessions'[d] = sessions[d]
                  /\ d \in clients' <=> d \in clients
                  /\ sessions[d].playerID \in DOMAIN players
                         => /\ sessions[d].playerID \in DOMAIN players'
                            /\ players'[sessions[d].playerID]
                                   = players[sessions[d].playerID]]_vars

\* the hub has closed the channel of a session whose readPump is still in
\* its loop: the fan-out found the buffer full
Kicked(c) == c \in DOMAIN sessions /\ sessions[c].at = "read" /\ c \in closed

\* C23: from a state in which the hub has removed a session with a full
\* buffer and that session has a player in the world, a state follows in
\* which that player is not in the world.
C23_KickedPlayerGoes ==
    \A c \in ClientIDs : \A id \in PlayerIDs :
        (Kicked(c) /\ sessions[c].playerID = id /\ id \in DOMAIN players)
            ~> (id \notin DOMAIN players)

\* the sessions whose readPump handles a message in this step, as far as
\* the record of the session shows it
Handling == {c \in DOMAIN sessions : /\ c \in DOMAIN sessions'
                                      /\ sessions[c].at = "read"
                                      /\ sessions'[c].at = "read"
                                      /\ sessions'[c] # sessions[c]}

\* the last message of session record s is a well-formed move
MoveLast(s) == s.last # <<>> /\ s.last[1].json /\ s.last[1].type = "move"

\* C24: a step in which a session without a player handles a move writes
\* the error "not joined" and leaves the session without a player, the
\* command queue, the players and the sweets as they are; a session without
\* a player whose last message is a move has been answered "not joined";
\* and no queued or drained command carries the empty player id.
C24_MoveBeforeJoinRejected ==
    /\ [][\A c \in Handling :
             (sessions[c].playerID = 0 /\ MoveLast(sessions'[c]))
             => /\ sessions'[c].reply = "not joined"
                /\ sessions'[c].playerID = 0
                /\ commands' = commands
                /\ players' = players
                /\ sweets' = sweets]_vars
    /\ [](\A c \in DOMAIN sessions :
             (sessions[c].playerID = 0 /\ MoveLast(sessions[c]))
             => sessions[c].reply = "not joined")
    /\ [](\A k \in 1 .. Len(commands) : commands[k].PlayerID # 0)
    /\ [](\A k \in 1 .. Len(cmds) : cmds[k].PlayerID # 0)

\* a session that has not joined has been refused a move while the move of
\* a joined session is waiting in the queue
C24_Witness ==
    \E c \in DOMAIN sessions : \E d \in DOMAIN sessions :
        /\ sessions[c].playerID = 0
        /\ MoveLast(sessions[c])
        /\ sessions[c].last[1].dir = "left"
        /\ sessions[c].reply = "not joined"
        /\ sessions[d].playerID # 0
        /\ sessions[d].playerID \in DOMAIN players
        /\ commands = <<[PlayerID |-> sessions[d].playerID, Type |-> "move",
                         Dir |-> "right", X |-> 0, Y |-> 0]>>

\* the last message of session record s is a join
JoinLast(s) == s.last # <<>> /\ s.last[1].json /\ s.last[1].type = "join"

\* a live player stands on every cell of the grid
EveryCellTaken == \A cell \in Cells : \E q \in DOMAIN players : Pos(players[q]) = cell

\* C25: a step in which a session handles a join is answered "unable to add
\* player" exactly when a live player stands on every cell of the grid; then
\* the players are unchanged, the session keeps the player id it had (none
\* if it had none) and its readPump stays in its loop; otherwise the session
\* is answered join_ack and holds the id of a player that is in the world
\* on a cell no other player stands on.
C25_JoinFailsIffGridFull ==
    [][\A c \in Handling :
           JoinLast(sessions'[c])
           => /\ sessions'[c].reply = "unable to add player" <=> EveryCellTaken
              /\ EveryCellTaken
                    => /\ players' = players
                       /\ sessions'[c].playerID = sessions[c].playerID
                       /\ sessions'[c].at = "read"
                       /\ pc' = pc /\ mu' = "free"
              /\ ~EveryCellTaken
                    => /\ sessions'[c].reply = "join_ack"
                       /\ sessions'[c].playerID \in DOMAIN players'
                       /\ \A q \in DOMAIN players' \ {sessions'[c].playerID} :
                              /\ Pos(players'[q]) # Pos(players'[sessions'[c].playerID])
                              /\ q \in DOMAIN players
                              /\ players'[q] = players[q]]_vars

\* every cell holds a player, and a session that had no player has been
\* refused and still has none
C25_Witness ==
    /\ EveryCellTaken
    /\ Cardinality(DOMAIN players) = Cardinality(Cells)
    /\ \E c \in DOMAIN sessions :
           /\ sessions[c].at = "read"
           /\ sessions[c].playerID = 0
           /\ JoinLast(sessions[c])
           /\ sessions[c].reply = "unable to add player"

\* the last message of session record s is a move with an absolute target
\* and no dir
AbsLast(s) == MoveLast(s) /\ s.last[1].dir = ""

\* the target of that message, clamped to the grid
Target(s) == <<clamp(s.last[1].x, 0, GridW - 1), clamp(s.last[1].y, 0, GridH - 1)>>

\* C26: when the resolver reaches the command that a joined session sent as
\* a move with an absolute target, and no other player stands on the target
\* clamped to the grid, the step leaves the player of the session on that
\* cell.
C26_AbsoluteMoveReachesTarget ==
    [][\A c \in DOMAIN sessions : \A id \in PlayerIDs :
           (/\ sessions[c].playerID = id
            /\ AbsLast(sessions[c])
            /\ Resolves(id)
            /\ LastCmd(id).Dir = ""
            /\ ~OtherAt(id, Target(sessions[c])))
           => Pos(players'[id]) = Target(sessions[c])]_vars

\* the last message of session record s is not JSON
MalformedLast(s) == s.last # <<>> /\ ~s.last[1].json

\* C27: a step in which a session handles a message that is not JSON writes
\* a reply on its connection and leaves the command queue, the players, the
\* sweets, the registered set and every other session as they are, with the
\* readPump of the session still in its loop; and a session whose last
\* message was not JSON has been answered.
C27_MalformedMessageAnswered ==
    /\ [][\A c \in Handling :
             MalformedLast(sessions'[c])
             => /\ sessions'[c].reply # ""
                /\ sessions'[c].at = "read"
                /\ sessions'[c].playerID = sessions[c].playerID
                /\ commands' = commands
                /\ players' = players
                /\ sweets' = sweets
                /\ clients' = clients
                /\ \A d \in DOMAIN sessions \ {c} :
                       d \in DOMAIN sessions' /\ sessions'[d] = sessions[d]]_vars
    /\ [](\A c \in DOMAIN sessions :
             MalformedLast(sessions[c]) => sessions[c].reply # "")

\* C28: before the first tick (the sweets are those NewGame placed) and
\* while a Restart holds the world (the sweets are those it regenerated), no
\* two live sweets lie on the same cell, and after a Restart no sweet lies
\* on the cell of a player.
C28_SweetsOnFreeCells ==
    (tick = 0 \/ pc = "flush")
    => /\ \A a \in DOMAIN sweets : \A b \in DOMAIN sweets :
              a # b => Pos(sweets[a]) # Pos(sweets[b])
       /\ pc = "flush"
              => \A a \in DOMAIN sweets : \A q \in DOMAIN players :
                     Pos(sweets[a]) # Pos(players[q])

\* C29: when the resolver has gone through its entries, no live sweet lies
\* on the cell of a player whose move it has accepted in this tick.
C29_NoSweetUnderMover ==
    pc = "unlock"
    => \A id \in DOMAIN accepted \cap DOMAIN players :
           SweetsAt(sweets, Pos(players[id])) = {}

\* C30: a step that hands a serialized message to EventBroadcast or to
\* StateBroadcast is taken by a goroutine that does not hold g.mu.
C30_NoSendUnderLock ==
    [][(Len(EventBroadcast') > Len(EventBroadcast)
            \/ Len(StateBroadcast') > Len(StateBroadcast))
       => (mu = "free" /\ mu' = "free")]_vars

\* C31: in the resolver that walks the drained commands in arrival order,
\* movesCount never exceeds MaxMovesPerTick for any player; an iteration
\* whose command belongs to a live player under the cap and whose
\* destination holds no other player puts the player there and counts one
\* move, every other iteration changes neither a player nor a count; and
\* during and after the walk no two players share a cell.
C31_CapAndNoSharedCell ==
    /\ [](\A id \in DOMAIN accepted : accepted[id] <= MaxMovesPerTick)
    /\ [](pc \in {"moves", "unlock"} => NoOverlap)
    /\ [][pc = "moves" /\ next' = next + 1
          => LET id == cmds[next].PlayerID
                 n == IF id \in DOMAIN accepted THEN accepted[id] ELSE 0
             IN IF /\ id \in DOMAIN players
                   /\ n < MaxMovesPerTick
                   /\ ~OtherAt(id, DestMove(players[id], cmds[next]))
                THEN /\ accepted' = Put(accepted, id, n + 1)
                     /\ Pos(players'[id]) = DestMove(players[id], cmds[next])
                     /\ \A q \in DOMAIN players \ {id} : players'[q] = players[q]
                ELSE /\ accepted' = accepted
                     /\ players' = players
                     /\ sweets' = sweets]_vars

\* the four commands of one tick are one player's: the first is refused
\* because another player stands on the destination, the next two are
\* accepted and move the player, the fourth is passed over at the cap
C31_Witness ==
    /\ pc = "unlock"
    /\ Len(cmds) = CapBatch
    /\ \E id \in DOMAIN players :
           /\ \A k \in 1 .. CapBatch : cmds[k].PlayerID = id
           /\ accepted = (id :> MaxMovesPerTick)
           /\ OtherAt(id, DestMove(pre.players[id], cmds[1]))
           /\ Pos(players[id]) # Pos(pre.players[id])
           /\ DestMove(players[id], cmds[CapBatch]) # Pos(players[id])
           /\ ~OtherAt(id, DestMove(players[id], cmds[CapBatch]))

\* the position of player id in the resolver's order, 0 when it has no entry
Rank(id) ==
    IF \E k \in 1 .. Len(entries) : entries[k].id = id
    THEN CHOOSE k \in 1 .. Len(entries) : entries[k].id = id
    ELSE 0

\* the cell player id asks for in this tick, from where it stood at the drain
Asked(id) == Dest(pre.players[id], cmds[entries[Rank(id)].idx])

\* C32: the resolver tests a destination against the positions as they are
\* when the mover's turn comes. A mover whose destination held another
\* player at the start of the tick and holds none now goes there; a mover
\* whose destination holds a player whose own turn comes later stays; and at
\* the end of a tick in which two players each asked for the cell the other
\* stood on, both stand where they stood.
C32_OccupancyFollowsTheTick ==
    /\ [][\A b \in PlayerIDs :
             Resolves(b) =>
               LET cell == Dest(players[b], cmds[entries[next].idx])
               IN /\ ( /\ \E a \in DOMAIN pre.players \ {b} :
                              Pos(pre.players[a]) = cell
                        /\ ~OtherAt(b, cell) )
                     => Pos(players'[b]) = cell
                  /\ ( \E a \in DOMAIN players \ {b} :
                          /\ Pos(players[a]) = cell
                          /\ Rank(a) > next )
                     => players' = players]_vars
    /\ [](pc = "unlock" =>
            \A a, b \in DOMAIN players :
               ( /\ a # b
                 /\ Rank(a) > 0
                 /\ Rank(b) > 0
                 /\ Asked(a) = Pos(pre.players[b])
                 /\ Asked(b) = Pos(pre.players[a]) )
               => /\ Pos(players[a]) = Pos(pre.players[a])
                  /\ Pos(players[b]) = Pos(pre.players[b]))

\* a tick has ended in which the first mover left its cell and the second
\* one, which asked for that cell, stands on it
C32_Witness ==
    /\ pc = "unlock"
    /\ \E a, b \in DOMAIN players :
          /\ Rank(a) > 0
          /\ Rank(a) < Rank(b)
          /\ Pos(players[a]) # Pos(pre.players[a])
          /\ Asked(b) = Pos(pre.players[a])
          /\ Pos(players[b]) = Pos(pre.players[a])

\* a tick has ended in which the first mover asked for the cell of a player
\* that left it afterwards in the same tick, and the first mover stayed
C32_WitnessLater ==
    /\ pc = "unlock"
    /\ \E a, b \in DOMAIN players :
          /\ Rank(b) > 0
          /\ Rank(b) < Rank(a)
          /\ Asked(b) = Pos(pre.players[a])
          /\ Asked(b) # Pos(pre.players[b])
          /\ Pos(players[a]) # Pos(pre.players[a])
          /\ Pos(players[b]) = Pos(pre.players[b])

\* a tick has ended in which two players asked for each other's cell
C32_WitnessSwap ==
    /\ pc = "unlock"
    /\ \E a, b \in DOMAIN players :
          /\ a # b
          /\ Rank(a) > 0
          /\ Rank(b) > 0
          /\ Asked(a) = Pos(pre.players[b])
          /\ Asked(b) = Pos(pre.players[a])
          /\ players = pre.players

\* the resolver has just handled, for player id, a command of the given kind
\* that asks for the cell the player stood on, and the player picked up the
\* sweet that lay there
StayedAndScored(kind(_)) ==
    /\ pc \in {"resolve", "unlock"}
    /\ next > 1
    /\ LET id == entries[next - 1].id
           c == cmds[entries[next - 1].idx]
       IN /\ id \in DOMAIN players
          /\ id \in DOMAIN accepted
          /\ kind(c)
          /\ Dest(pre.players[id], c) = Pos(pre.players[id])
          /\ Pos(players[id]) = Pos(pre.players[id])
          /\ SweetsAt(pre.sweets, Pos(players[id])) # {}
          /\ SweetsAt(sweets, Pos(players[id])) = {}
          /\ players[id].Score = pre.players[id].Score + 1

EmptyDir(c) == c.Type = "move" /\ c.Dir = ""

ClampedDir(c) == c.Type = "move" /\ c.Dir \in Dirs

UnknownType(c) == c.Type \notin {"move", "move_abs"}

\* C33: when the resolver reaches a mover whose destination is the cell it
\* stands on, the move is accepted, the position is unchanged and the pickup
\* runs: with a sweet on the cell the player scores one point and one sweet
\* of that cell goes, without one neither the score nor the sweets change.
C33_StayingMoveAcceptedAndPicksUp ==
    [][\A id \in PlayerIDs :
           (Resolves(id) /\ Dest(players[id], cmds[entries[next].idx]) = Pos(players[id]))
           => /\ id \in DOMAIN accepted'
              /\ accepted' # accepted
              /\ Pos(players'[id]) = Pos(players[id])
              /\ IF SweetsAt(sweets, Pos(players[id])) = {}
                 THEN players' = players /\ sweets' = sweets
                 ELSE /\ players'[id].Score = players[id].Score + 1
                      /\ \E sid \in SweetsAt(sweets, Pos(players[id])) :
                             sweets' = [j \in DOMAIN sweets \ {sid} |-> sweets[j]]]_vars

\* a move with an empty direction has collected the sweet under the player
C33_Witness == StayedAndScored(EmptyDir)

\* the same for a directional move clamped at the border
C33_WitnessClamped == StayedAndScored(ClampedDir)

\* the same for a command of an unknown type
C33_WitnessUnknownType == StayedAndScored(UnknownType)

\* the sum of the scores of the players of S
RECURSIVE ScoreSum(_)
ScoreSum(S) ==
    IF S = {} THEN 0
    ELSE LET id == CHOOSE q \in S : TRUE
         IN players[id].Score + ScoreSum(S \ {id})

\* C34: with players that are never removed, the scores of the live players
\* and the number of live sweets add up to the number of sweets the game was
\* created with, in every state; and no step lowers the score of a player.
C34_ScoresAndSweetsConserved ==
    /\ [](ScoreSum(DOMAIN players) + Cardinality(DOMAIN sweets) = nSweets)
    /\ [][\A id \in DOMAIN players :
             id \in DOMAIN players' /\ players'[id].Score >= players[id].Score]_vars

\* both sweets have been collected, one by each of two players
C34_Witness ==
    /\ nSweets = ManySweets
    /\ sweets = EmptyMap
    /\ Cardinality(DOMAIN players) = MaxPlayers
    /\ \A id \in DOMAIN players : players[id].Score = 1

\* session c is open, holds player id, and the last message it sent is a
\* move: with sessions that join once, it has moved since it joined
MovedSinceJoin(c, id) ==
    /\ c \in DOMAIN sessions
    /\ sessions[c].at = "read"
    /\ sessions[c].playerID = id
    /\ sessions[c].last # <<>>
    /\ sessions[c].last[1].type = "move"

\* C35: with sessions that join at most once, the iteration of the resolver
\* for an id without a live player changes nothing, and a command the
\* resolver accepts for player id was sent by the session the player was
\* created for: an open session holds id and has sent a move since it joined.
C35_CommandReachesOwnPlayerOnly ==
    /\ [][(pc = "resolve" /\ next' = next + 1 /\ entries[next].id \notin DOMAIN players)
          => /\ players' = players
             /\ sweets' = sweets
             /\ EventBroadcast' = EventBroadcast]_vars
    /\ [][\A id \in PlayerIDs :
             (Resolves(id) /\ accepted' # accepted)
             => \E c \in ClientIDs : MovedSinceJoin(c, id)]_vars

\* the sessions whose readPump is running and whose c.playerID is id
OpenWith(id) ==
    {c \in DOMAIN sessions : sessions[c].at = "read" /\ sessions[c].playerID = id}

\* C36: no live player is the player of two open sessions, and when every
\* session has ended no player is left in the world.
C36_NoPlayerOutlivesItsSession ==
    /\ \A id \in DOMAIN players : Cardinality(OpenWith(id)) <= 1
    /\ (\A c \in DOMAIN sessions : sessions[c].at # "read") => players = EmptyMap

\* C37: no close and no send ever meets a closed channel; a registered
\* session's channel is open; a step that takes a session out of hub.clients
\* closes its channel, which was open; a closed channel stays closed until
\* its writePump has returned; and a message is added to a channel only
\* while its session is registered and the channel open.
C37_ClosedOnceNeverSentAfter ==
    /\ [](Panic \notin closed)
    /\ [](clients \cap closed = {} /\ clients \subseteq DOMAIN send)
    /\ [][\A c \in ClientIDs :
             /\ (c \in clients /\ c \notin clients') => (c \notin closed /\ c \in closed')
             /\ (c \notin closed /\ c \in closed') => (c \in clients /\ c \notin clients')
             /\ (c \in closed /\ c \notin closed') => c \notin DOMAIN send'
             /\ ( /\ c \in DOMAIN send
                  /\ c \in DOMAIN send'
                  /\ Len(send'[c]) > Len(send[c]) )
                => (c \in clients /\ c \notin closed /\ c \in clients')]_vars

\* in the middle of a broadcast the hub has closed the channel of a session
\* it found full, that session's reader is waiting to unregister, and
\* another session has been sent the message
C37_Witness ==
    /\ fanout.msg # <<>>
    /\ \E c, d \in ClientIDs :
          /\ c # d
          /\ c \in closed
          /\ c \notin clients
          /\ c \in DOMAIN sessions
          /\ sessions[c].at = "unreg"
          /\ \E i, j \in 1 .. Len(fanout.done) : fanout.done[i] = c /\ fanout.done[j] = d
          /\ d \in clients
          /\ send[d] # <<>>

\* the step is readPump of session c handling a message and writing a
\* reply on the connection
Replies(c) ==
    /\ c \in DOMAIN sessions
    /\ c \in DOMAIN sessions'
    /\ sessions[c].at = "read"
    /\ sessions'[c].at = "read"
    /\ sessions'[c].writer = sessions[c].writer
    /\ sessions'[c] # sessions[c]
    /\ sessions'[c].reply # ""

\* C38: readPump never writes a reply on a connection while the writePump of
\* the same session is inside WriteMessage.
C38_OneWriterPerConnection ==
    [][\A c \in ClientIDs : Replies(c) => sessions[c].writer # "write"]_vars

\* C39: a broadcast the hub has started comes to its end; a session waiting
\* in h.register <- client is registered; a session whose reader waits in
\* h.unregister <- c is unregistered; and a message a forwarder offers on
\* h.broadcast is taken.
C39_HubAcceptsEveryRequest ==
    /\ (fanout.msg # <<>>) ~> (fanout = NoFanout)
    /\ \A c \in ClientIDs :
          /\ (c \in DOMAIN sessions /\ sessions[c].at = "reg")
                ~> (c \in DOMAIN sessions /\ sessions[c].at = "read")
          /\ (c \in DOMAIN sessions /\ sessions[c].at = "unreg")
                ~> (c \notin DOMAIN sessions)
    /\ \A k \in Forwarders : (held[k] # <<>>) ~> (held[k] = <<>>)

\* in the middle of a broadcast in which the hub has dropped a session that
\* did not read, and whose reader has ended since, a registration is waiting
C39_Witness ==
    /\ fanout.msg # <<>>
    /\ \E c, d \in ClientIDs :
          /\ c \in DOMAIN sessions
          /\ sessions[c].at = "reg"
          /\ d \in closed
          /\ d \in DOMAIN sessions
          /\ sessions[d].at = "unreg"
          /\ \E i \in 1 .. Len(fanout.done) : fanout.done[i] = d

====
